---- MODULE Spec2Model ----
(***************************************************************************)
(* State-machine model of bot.py: the update_presence polling loop         *)
(* (presence, channel topic, online/offline announcements), the on_ready   *)
(* handler that starts it, and the online_command query.                   *)
(*                                                                         *)
(* Every coroutine is cut at its awaits: an action is the resumption from  *)
(* one await (with the outcome of the awaited call drawn from a small set) *)
(* followed by all the code up to the next await.  The event loop is       *)
(* single-threaded, so such a stretch is atomic.                           *)
(***************************************************************************)
EXTENDS Integers, Sequences, FiniteSets, TLC

\* ---- bounds of the model ----
MaxOnline == 1      \* largest players.online a status reply carries
MaxTasks == 2       \* task slots the event loop offers to update_presence
MaxLen == 5         \* longest /list reply text drawn exhaustively

\* Optional[bool]: None is the empty tuple, a value b is <<b>>.
None == <<>>
Some(b) == <<b>>

Tasks == 1..MaxTasks

\* players.max of a status reply: the server's slot count, which the code
\* copies into its strings and never branches on
SlotCounts == {20}

VARIABLES
  STATUS_CHANNEL_ID,    \* config: None or the channel id
  RCON_ENABLED,         \* config: bool(RCON_PASSWORD)
  last_server_online,   \* the global of line 36
  channel_is_text,      \* whether bot.get_channel(STATUS_CHANNEL_ID) is a TextChannel now
  channel_topic,        \* channel.topic of that channel
  presence,             \* the presence the gateway last accepted
  task,                 \* per slot: the update_presence loop task and its locals
  completed_online,     \* history: server_online of the last tick that ran to its end
  ready_again,          \* history: on_ready has fired while the loop was running
  query,                \* the online_command invocation and its locals
  resp_text,            \* the argument of a call of parse_rcon_list on its own
  parsed                \* None, or what that call returned

vars == <<STATUS_CHANNEL_ID, RCON_ENABLED, last_server_online, channel_is_text,
          channel_topic, presence, task, completed_online, ready_again, query,
          resp_text, parsed>>

\* ---- strings the code builds ----

\* the player-count label shown for an unreachable server too
PresenceLabelNoOffline(server_online, online) == <<"players on", online>>

\* lines 121-124 and 130-133: the activity name handed to change_presence
PresenceLabel(server_online, online) ==
  IF server_online THEN <<"players on", online>> ELSE <<"server offline">>

\* lines 144-147: the topic string
TopicFor(server_online, online, max_players) ==
  IF server_online THEN <<"Players", online, max_players>> ELSE <<"server offline">>

\* a topic the channel may carry before the bot ever edits it
ForeignTopic == <<"welcome">>

\* lines 166-169: the messages of an announcement, in sending order
OnlineMsg == "now online"
HintMsg == "IP hint"
OfflineMsg == "now offline"

\* the edit made without looking at the channel's topic
TopicAlwaysEdited(current, topic) == TRUE

\* line 150: the edit is skipped when the channel already carries the topic
TopicNeedsEdit(current, topic) == current # topic

\* the baseline branch never taken
NeverFirstRun(last) == FALSE

\* line 157: first run, no baseline yet
IsFirstRun(last) == last = None

\* the comparison inverted
StateUnchanged(last, server_online) == last = Some(server_online)

\* only the change to online noticed
StateChangedToOnline(last, server_online) == last # Some(server_online) /\ server_online

\* line 160: the state differs from the last known one
StateChanged(last, server_online) == last # Some(server_online)

\* the two directions swapped
FirstMessageSwapped(server_online) == IF server_online THEN OfflineMsg ELSE OnlineMsg

\* line 165: which message the announcement starts with
FirstMessage(server_online) == IF server_online THEN OnlineMsg ELSE OfflineMsg

\* ---- text: a string is a sequence of one-character strings ----

Whitespace == {" "}

\* str.find: the index of the first c in s, 0 when there is none
RECURSIVE FindFrom(_, _, _)
FindFrom(s, c, i) ==
  IF i > Len(s) THEN 0 ELSE IF s[i] = c THEN i ELSE FindFrom(s, c, i + 1)

Find(s, c) == FindFrom(s, c, 1)

\* str.split(c): the pieces between the occurrences of c, empty ones kept
RECURSIVE Split(_, _)
Split(s, c) ==
  LET i == Find(s, c)
  IN IF i = 0 THEN <<s>>
     ELSE <<SubSeq(s, 1, i - 1)>> \o Split(SubSeq(s, i + 1, Len(s)), c)

\* only the leading whitespace removed
RECURSIVE StripLeft(_)
StripLeft(s) ==
  IF s = <<>> THEN s
  ELSE IF s[1] \in Whitespace THEN StripLeft(Tail(s))
  ELSE s

\* str.strip(): leading and trailing whitespace removed
RECURSIVE Strip(_)
Strip(s) ==
  IF s = <<>> THEN s
  ELSE IF s[1] \in Whitespace THEN Strip(Tail(s))
  ELSE IF s[Len(s)] \in Whitespace THEN Strip(SubSeq(s, 1, Len(s) - 1))
  ELSE s

\* the list comprehension of line 86: strip every piece, keep the non-empty
RECURSIVE StripAndKeep(_)
StripAndKeep(pieces) ==
  IF pieces = <<>> THEN <<>>
  ELSE LET n == Strip(Head(pieces))
       IN (IF n # <<>> THEN <<n>> ELSE <<>>) \o StripAndKeep(Tail(pieces))

\* lines 75-87
parse_rcon_list(resp) ==
  IF Find(resp, ":") = 0
    THEN <<>>
    ELSE LET after_colon == SubSeq(resp, Find(resp, ":") + 1, Len(resp))
         IN StripAndKeep(Split(after_colon, ","))

\* player names, and the /list replies and status samples the model draws from
Steve == <<"S">>
Alex == <<"A">>
RconReplies ==
  { <<>>,                                            \* ""
    <<"x", ".">>,                                    \* "There are 0 ... online."
    <<"x", ":">>,                                    \* "...online:"
    <<"x", ":", " ", "S", ",", " ", "A">>,           \* "...online: Steve, Alex"
    <<"x", ":", "S", ",", ",", " ">> }               \* "...online:Steve,, "
Samples == { <<>>, <<Steve>>, <<Alex, Steve>> }

\* ---- the loop task (tasks.loop, lines 101-102) ----

\* locals of update_presence at its entry (lines 105-108), with the history
\* fields of the tick: what it sent, edited and handed to change_presence
\* (updates counts the assignments to last_server_online; the prev_ fields
\* say what the preceding call in this task computed as topic, how its edit
\* ended, and whether it detected a transition it could not announce)
FreshTick(last, completed, prev_topic, prev_edit, prev_missed) ==
  [pc |-> "probe", server_online |-> FALSE, online |-> 0, max_players |-> 0,
   sent |-> <<>>, edits |-> 0, presence_calls |-> <<>>, topic |-> None,
   topic_seen |-> None, transitioned |-> FALSE, saw_text |-> FALSE,
   send_failed |-> FALSE, edit_failed |-> FALSE, probe_failed |-> FALSE,
   updates |-> 0,
   last_at_start |-> last, completed_at_start |-> completed,
   prev_topic |-> prev_topic, prev_edit |-> prev_edit, prev_missed |-> prev_missed]

NoTask == [FreshTick(None, None, None, "none", FALSE) EXCEPT !.pc = "none"]

\* how the edit of a call ended, and whether its announcement was missed
EditOutcome(r) == IF r.edits = 0 THEN "none" ELSE IF r.edit_failed THEN "failed" ELSE "ok"
Missed(r) == r.transitioned /\ (r.send_failed \/ ~r.saw_text)

\* a tick is in progress between the entry of update_presence and its return
InTick(r) == r.pc \in {"probe", "presence", "topic", "send_online", "send_hint", "send_offline"}

\* Loop.is_running(): the task exists and is not done (line 95)
TaskAlive(r) == r.pc \notin {"none", "failed"}
is_running == \E t \in Tasks : TaskAlive(task[t])

\* online_command before it is invoked; response is what the requester sees
IdleQuery ==
  [pc |-> "idle", online |-> 0, max_players |-> 0, sample |-> <<>>,
   player_names |-> <<>>, response |-> None, probe_failed |-> FALSE,
   rcon_called |-> FALSE, rcon_io |-> FALSE, rcon_failed |-> FALSE,
   rcon_resp |-> None, while_probing |-> FALSE]

\* a tick is suspended at line 112, waiting for its status probe
TickAwaitingProbe == \E t \in Tasks : task[t].pc = "probe"

\* the blocking status ping called on the loop thread: nothing else runs on
\* the event loop while a probe is out
ProbeOnLoopThread == TickAwaitingProbe \/ query.pc \in {"status", "rcon"}

\* lines 47-50 and 66-68: the blocking calls run in executor threads, so the
\* thread of the event loop is never inside one: a coroutine that awaits a
\* probe is suspended and every other coroutine and callback can run
LoopThreadBusy == FALSE

Init ==
  /\ STATUS_CHANNEL_ID \in {None, <<"id">>}
  /\ RCON_ENABLED \in BOOLEAN
  /\ last_server_online = None
  /\ channel_is_text \in BOOLEAN
  /\ channel_topic \in {ForeignTopic, TopicFor(FALSE, 0, 0)}
  /\ presence = None
  /\ task = [t \in Tasks |-> NoTask]
  /\ completed_online = None
  /\ ready_again = FALSE
  /\ query = IdleQuery
  /\ resp_text = <<>>
  /\ parsed = None

\* Loop.start() (line 96): a new task, which runs the first iteration at once
FreeSlots == {s \in Tasks : ~TaskAlive(task[s])}
start ==
  IF FreeSlots = {}
    THEN UNCHANGED task
    ELSE LET t == CHOOSE s \in FreeSlots : \A u \in FreeSlots : s <= u
         IN task' = [task EXCEPT ![t] = [NoTask EXCEPT !.pc = "ready"]]

\* start() called on every on_ready
on_ready_unguarded ==
  /\ ~LoopThreadBusy
  /\ ready_again' = (ready_again \/ is_running)
  /\ start
  /\ UNCHANGED <<resp_text, parsed, STATUS_CHANNEL_ID, RCON_ENABLED, last_server_online, channel_is_text,
                 channel_topic, presence, completed_online, query>>

\* lines 92-96: start the loop unless it is running
on_ready ==
  /\ ~LoopThreadBusy
  /\ ready_again' = (ready_again \/ is_running)
  /\ IF ~is_running
       THEN start
       ELSE UNCHANGED task
  /\ UNCHANGED <<resp_text, parsed, STATUS_CHANNEL_ID, RCON_ENABLED, last_server_online, channel_is_text,
                 channel_topic, presence, completed_online, query>>

\* tasks.loop: the next iteration calls update_presence once the previous call
\* has returned (or, after a retryable exception, once the backoff has passed)
LoopIterate(t) ==
  /\ ~LoopThreadBusy
  /\ task[t].pc \in {"ready", "done", "backoff"}
  /\ task' = [task EXCEPT ![t] =
                 FreshTick(last_server_online, completed_online, task[t].topic,
                           EditOutcome(task[t]), Missed(task[t]))]
  /\ UNCHANGED <<resp_text, parsed, STATUS_CHANNEL_ID, RCON_ENABLED, last_server_online, channel_is_text,
                 channel_topic, presence, completed_online, ready_again, query>>

\* the return of update_presence: the loop sleeps until the next interval
Finish(t, r) ==
  /\ task' = [task EXCEPT ![t] = [r EXCEPT !.pc = "done"]]
  /\ completed_online' = Some(r.server_online)

\* lines 155-173, entered with the locals r: the baseline, the transition test,
\* the update of last_server_online, and the first send of an announcement
AnnounceFrom(t, r) ==
  LET assigned == [r EXCEPT !.updates = r.updates + 1]
  IN IF STATUS_CHANNEL_ID # None
       THEN IF IsFirstRun(last_server_online)
              THEN /\ last_server_online' = Some(r.server_online)
                   /\ Finish(t, assigned)
              ELSE IF StateChanged(last_server_online, r.server_online)
                     THEN /\ last_server_online' = Some(r.server_online)
                          /\ IF channel_is_text
                               THEN /\ task' = [task EXCEPT ![t] =
                                          [assigned EXCEPT
                                             !.pc = IF r.server_online THEN "send_online"
                                                                       ELSE "send_offline",
                                             !.sent = <<FirstMessage(r.server_online)>>,
                                             !.transitioned = TRUE]]
                                    /\ UNCHANGED completed_online
                               ELSE Finish(t, [assigned EXCEPT !.transitioned = TRUE])
                     ELSE /\ UNCHANGED last_server_online
                          /\ Finish(t, r)
       ELSE /\ last_server_online' = Some(r.server_online)
            /\ Finish(t, assigned)

\* the same, with the history field saw_text: whether get_channel of line 162
\* gives a text channel at this moment
AnnounceSection(t, r) ==
  AnnounceFrom(t, [r EXCEPT !.saw_text = STATUS_CHANNEL_ID # None /\ channel_is_text])

\* the topic handled without looking at STATUS_CHANNEL_ID
TopicSectionUnconfigured(t, r) ==
  IF channel_is_text
    THEN LET topic == TopicFor(r.server_online, r.online, r.max_players)
             r2 == [r EXCEPT !.topic = topic, !.topic_seen = channel_topic]
         IN IF TopicNeedsEdit(channel_topic, topic)
              THEN /\ task' = [task EXCEPT ![t] =
                         [r2 EXCEPT !.pc = "topic", !.edits = r.edits + 1]]
                   /\ UNCHANGED <<last_server_online, completed_online>>
              ELSE AnnounceSection(t, r2)
    ELSE AnnounceSection(t, r)

\* the topic compared with the one the preceding call computed, not with
\* the one the channel carries
TopicSectionRemembering(t, r) ==
  IF STATUS_CHANNEL_ID # None /\ channel_is_text
    THEN LET topic == TopicFor(r.server_online, r.online, r.max_players)
             r2 == [r EXCEPT !.topic = topic, !.topic_seen = channel_topic]
         IN IF TopicNeedsEdit(r.prev_topic, topic)
              THEN /\ task' = [task EXCEPT ![t] =
                         [r2 EXCEPT !.pc = "topic", !.edits = r.edits + 1]]
                   /\ UNCHANGED <<last_server_online, completed_online>>
              ELSE AnnounceSection(t, r2)
    ELSE AnnounceSection(t, r)

\* lines 140-153, entered with the locals r: the topic is computed when the
\* channel is a text channel and edited when the channel does not carry it
TopicSection(t, r) ==
  IF STATUS_CHANNEL_ID # None /\ channel_is_text
    THEN LET topic == TopicFor(r.server_online, r.online, r.max_players)
             r2 == [r EXCEPT !.topic = topic, !.topic_seen = channel_topic]
         IN IF TopicNeedsEdit(channel_topic, topic)
              THEN /\ task' = [task EXCEPT ![t] =
                         [r2 EXCEPT !.pc = "topic", !.edits = r.edits + 1]]
                   /\ UNCHANGED <<last_server_online, completed_online>>
              ELSE AnnounceSection(t, r2)
    ELSE AnnounceSection(t, r)

\* change_presence skipped when the label is the one shown
PresenceCallsWhenChanged(r, current) ==
  IF PresenceLabel(r.server_online, r.online) = current
    THEN r.presence_calls
    ELSE Append(r.presence_calls, PresenceLabel(r.server_online, r.online))

\* lines 119-138: change_presence is called in either branch, whatever the
\* presence shown now; the calls of the tick so far, this one included
PresenceCalls(r, current) ==
  Append(r.presence_calls, PresenceLabel(r.server_online, r.online))

\* lines 111-138: get_status_async returns or raises; the locals are set and
\* change_presence is called with the label of the state
TickProbe(t) ==
  /\ task[t].pc = "probe"
  /\ \E ok \in BOOLEAN, online \in 0..MaxOnline, max_players \in SlotCounts :
       /\ ~ok => online = 0 /\ max_players = 20
       /\ LET r == IF ok
                     THEN [task[t] EXCEPT !.server_online = TRUE, !.online = online,
                                          !.max_players = max_players]
                     ELSE [task[t] EXCEPT !.probe_failed = TRUE]
          IN task' = [task EXCEPT ![t] =
                [r EXCEPT !.pc = "presence", !.presence_calls = PresenceCalls(r, presence)]]
  /\ UNCHANGED <<resp_text, parsed, STATUS_CHANNEL_ID, RCON_ENABLED, last_server_online, channel_is_text,
                 channel_topic, presence, completed_online, ready_again, query>>

\* lines 125-138 onwards: change_presence returns, and the tick goes on to the
\* topic; or it raises, nothing in update_presence catches it, and tasks.loop
\* retries after a backoff (connection errors) or ends the task (anything else)
PresenceReturn(t) ==
  /\ ~LoopThreadBusy
  /\ task[t].pc = "presence"
  /\ \E outcome \in {"ok", "retryable", "other"} :
       IF outcome = "ok"
         THEN /\ presence' = PresenceLabel(task[t].server_online, task[t].online)
              /\ TopicSection(t, task[t])
         ELSE /\ task' = [task EXCEPT ![t].pc =
                             IF outcome = "retryable" THEN "backoff" ELSE "failed"]
              /\ UNCHANGED <<presence, last_server_online, completed_online>>
  /\ UNCHANGED <<resp_text, parsed, STATUS_CHANNEL_ID, RCON_ENABLED, channel_is_text, channel_topic,
                 ready_again, query>>

\* the exception of channel.edit left uncaught: the call ends there
TopicReturnAborting(t) ==
  /\ ~LoopThreadBusy
  /\ task[t].pc = "topic"
  /\ \E ok \in BOOLEAN :
       IF ok
         THEN /\ channel_topic' = task[t].topic
              /\ AnnounceSection(t, task[t])
         ELSE /\ task' = [task EXCEPT ![t].pc = "backoff", ![t].edit_failed = TRUE]
              /\ UNCHANGED <<channel_topic, last_server_online, completed_online>>
  /\ UNCHANGED <<resp_text, parsed, STATUS_CHANNEL_ID, RCON_ENABLED, channel_is_text,
                 presence, ready_again, query>>

\* lines 149-153 onwards: channel.edit returns (the channel carries the new
\* topic) or raises (caught, logged); the tick goes on to the announcement
TopicReturn(t) ==
  /\ ~LoopThreadBusy
  /\ task[t].pc = "topic"
  /\ \E ok \in BOOLEAN :
       /\ channel_topic' = IF ok THEN task[t].topic ELSE channel_topic
       /\ AnnounceSection(t, [task[t] EXCEPT !.edit_failed = ~ok])
  /\ UNCHANGED <<resp_text, parsed, STATUS_CHANNEL_ID, RCON_ENABLED, channel_is_text, presence,
                 ready_again, query>>

\* a failed send tried once more
SendReturnRetrying(t) ==
  /\ ~LoopThreadBusy
  /\ task[t].pc \in {"send_online", "send_hint", "send_offline"}
  /\ \E ok \in BOOLEAN :
       IF ok /\ task[t].pc = "send_online"
         THEN /\ task' = [task EXCEPT ![t].pc = "send_hint",
                                      ![t].sent = Append(task[t].sent, HintMsg)]
              /\ UNCHANGED completed_online
         ELSE IF ~ok /\ ~task[t].send_failed
                THEN /\ task' = [task EXCEPT
                            ![t].send_failed = TRUE,
                            ![t].sent = Append(task[t].sent,
                                               task[t].sent[Len(task[t].sent)])]
                     /\ UNCHANGED completed_online
                ELSE Finish(t, [task[t] EXCEPT !.send_failed = task[t].send_failed \/ ~ok])
  /\ UNCHANGED <<resp_text, parsed, STATUS_CHANNEL_ID, RCON_ENABLED, last_server_online,
                 channel_is_text, channel_topic, presence, ready_again, query>>

\* lines 164-171: a channel.send returns or raises; after the online message
\* the address hint is sent; an exception is caught and ends the announcement
SendReturn(t) ==
  /\ ~LoopThreadBusy
  /\ task[t].pc \in {"send_online", "send_hint", "send_offline"}
  /\ \E ok \in BOOLEAN :
       IF ok /\ task[t].pc = "send_online"
         THEN /\ task' = [task EXCEPT ![t].pc = "send_hint",
                                      ![t].sent = Append(task[t].sent, HintMsg)]
              /\ UNCHANGED completed_online
         ELSE Finish(t, [task[t] EXCEPT !.send_failed = ~ok])
  /\ UNCHANGED <<resp_text, parsed, STATUS_CHANNEL_ID, RCON_ENABLED, last_server_online, channel_is_text,
                 channel_topic, presence, ready_again, query>>

\* the environment: the configured channel leaves or enters the bot's cache as
\* a text channel (deleted, recreated, made visible)
ChannelChange ==
  /\ ~LoopThreadBusy
  /\ STATUS_CHANNEL_ID # None
  /\ channel_is_text' = ~channel_is_text
  /\ UNCHANGED <<resp_text, parsed, STATUS_CHANNEL_ID, RCON_ENABLED, last_server_online, channel_topic,
                 presence, task, completed_online, ready_again, query>>

\* the command recording what its own probe saw in the monitor's global
QueryFrameWritingState ==
  /\ last_server_online' = IF query'.pc = "replied" THEN Some(~query'.probe_failed)
                                                    ELSE last_server_online
  /\ UNCHANGED <<resp_text, parsed, STATUS_CHANNEL_ID, RCON_ENABLED, channel_is_text,
                 channel_topic, presence, task, completed_online, ready_again>>

\* lines 178-238: online_command assigns its locals only (it declares no
\* global) and writes to no surface of the monitor
QueryFrame ==
  UNCHANGED <<resp_text, parsed, STATUS_CHANNEL_ID, RCON_ENABLED, last_server_online, channel_is_text,
              channel_topic, presence, task, completed_online, ready_again>>

\* a failed probe answered like an empty server
OnStatusFailureAsEmpty(q) ==
  [q EXCEPT !.pc = "replied", !.probe_failed = TRUE, !.response = <<"nobody online">>]

\* lines 186-193: the status probe raised: the unreachable reply, then return
OnStatusFailure(q) ==
  [q EXCEPT !.pc = "replied", !.probe_failed = TRUE, !.response = <<"could not reach">>]

\* the status sample preferred to the names RCON gave
RespondSampleFirst(q, rcon_names) ==
  LET player_names == IF q.online > 0 /\ q.sample # <<>> THEN q.sample ELSE rcon_names
      description ==
        IF q.online = 0
          THEN <<"nobody online">>
          ELSE IF player_names # <<>>
                 THEN <<"players online", q.online, q.max_players, player_names>>
                 ELSE <<"names not retrieved", q.online, q.max_players>>
  IN [q EXCEPT !.pc = "replied", !.player_names = player_names, !.response = description]

\* the fallback to the status sample left out
RespondNoFallback(q, rcon_names) ==
  LET description ==
        IF q.online = 0
          THEN <<"nobody online">>
          ELSE IF rcon_names # <<>>
                 THEN <<"players online", q.online, q.max_players, rcon_names>>
                 ELSE <<"names not retrieved", q.online, q.max_players>>
  IN [q EXCEPT !.pc = "replied", !.player_names = rcon_names, !.response = description]

\* lines 205-238, entered with the locals q and the names RCON gave: the
\* fallback to the status sample, the description, and the edit of the reply
Respond(q, rcon_names) ==
  LET player_names == IF q.online > 0 /\ rcon_names = <<>> THEN q.sample ELSE rcon_names
      description ==
        IF q.online = 0
          THEN <<"nobody online">>
          ELSE IF player_names # <<>>
                 THEN <<"players online", q.online, q.max_players, player_names>>
                 ELSE <<"names not retrieved", q.online, q.max_players>>
  IN [q EXCEPT !.pc = "replied", !.player_names = player_names, !.response = description]

\* RCON asked whenever it is enabled
AskRconWhenEnabled(online, enabled) == enabled

\* line 200: RCON is asked only when somebody is online and it is enabled
ShouldAskRcon(online, enabled) == online > 0 /\ enabled

\* lines 63-68: rcon_list_async goes to the executor (network I/O) only when
\* RCON is enabled; otherwise it returns None at once
RconDoesIO(enabled) == enabled

\* lines 67-72: the reply of the blocking call, or None after an exception
RconResult(ok, resp) == IF ok THEN Some(resp) ELSE None

\* lines 202-203: a reply that is neither None nor "" is parsed
NamesFromRcon(rcon_resp) ==
  IF rcon_resp # None /\ rcon_resp[1] # <<>> THEN parse_rcon_list(rcon_resp[1]) ELSE <<>>

\* history: whether every step of the command so far ran while a tick was
\* waiting for its status probe
StillProbing(q) == [q EXCEPT !.while_probing = q.while_probing /\ TickAwaitingProbe]

\* lines 178-181: the command is invoked and the placeholder message is sent
QueryInvoke ==
  /\ ~LoopThreadBusy
  /\ query.pc \in {"idle", "replied"}
  /\ query' = [IdleQuery EXCEPT !.pc = "status", !.response = <<"checking">>,
                                !.while_probing = TickAwaitingProbe]
  /\ QueryFrame

\* lines 183-203: get_status_async raises (the unreachable reply, return) or
\* returns; RCON is asked when somebody is online and RCON is enabled
QueryStatus ==
  /\ query.pc = "status"
  /\ \E ok \in BOOLEAN, online \in 0..MaxOnline, max_players \in SlotCounts,
        sample \in Samples :
       /\ ~ok => online = 0 /\ max_players = 20 /\ sample = <<>>
       /\ query' =
            IF ~ok
              THEN OnStatusFailure(StillProbing(query))
              ELSE LET q == [StillProbing(query) EXCEPT !.online = online, !.max_players = max_players,
                                          !.sample = sample]
                   IN IF ShouldAskRcon(online, RCON_ENABLED)
                        THEN IF RconDoesIO(RCON_ENABLED)
                               THEN [q EXCEPT !.pc = "rcon", !.rcon_called = TRUE,
                                              !.rcon_io = TRUE]
                               ELSE Respond([q EXCEPT !.rcon_called = TRUE], <<>>)
                        ELSE Respond(q, <<>>)
  /\ QueryFrame

\* lines 61-72 and 201-238: rcon_list_async returns the reply, or None after
\* an exception; a non-empty reply is parsed
QueryRcon ==
  /\ query.pc = "rcon"
  /\ \E ok \in BOOLEAN, resp \in RconReplies :
       /\ ~ok => resp = <<>>
       /\ query' = Respond([StillProbing(query) EXCEPT !.rcon_failed = ~ok,
                                         !.rcon_resp = RconResult(ok, resp)],
                           NamesFromRcon(RconResult(ok, resp)))
  /\ QueryFrame

Next ==
  \/ QueryInvoke
  \/ QueryStatus
  \/ QueryRcon
  \/ on_ready
  \/ \E t \in Tasks : LoopIterate(t)
  \/ \E t \in Tasks : TickProbe(t)
  \/ \E t \in Tasks : PresenceReturn(t)
  \/ \E t \in Tasks : TopicReturn(t)
  \/ \E t \in Tasks : SendReturn(t)
  \/ ChannelChange

Spec == Init /\ [][Next]_vars

\* ---- parse_rcon_list on its own: every text up to MaxLen over the
\* characters that matter to it, and the two replies of its docstring ----

Chars == {"S", "A", ":", ",", " "}
BoundedTexts == UNION {[1..n -> Chars] : n \in 0..MaxLen}

\* line 79: 'There are 2 of a max of 20 players online: Steve, Alex'
ListOfTwo ==
  << "T", "h", "e", "r", "e", " ", "a", "r", "e", " ", "2", " ", "o", "f", " ",
     "a", " ", "m", "a", "x", " ", "o", "f", " ", "2", "0", " ", "p", "l", "a",
     "y", "e", "r", "s", " ", "o", "n", "l", "i", "n", "e", ":", " ", "S", "t",
     "e", "v", "e", ",", " ", "A", "l", "e", "x" >>

\* line 80: 'There are 0 of a max of 20 players online.'
ListOfNone ==
  << "T", "h", "e", "r", "e", " ", "a", "r", "e", " ", "0", " ", "o", "f", " ",
     "a", " ", "m", "a", "x", " ", "o", "f", " ", "2", "0", " ", "p", "l", "a",
     "y", "e", "r", "s", " ", "o", "n", "l", "i", "n", "e", "." >>

ParseInit ==
  /\ STATUS_CHANNEL_ID = None
  /\ RCON_ENABLED = TRUE
  /\ last_server_online = None
  /\ channel_is_text = FALSE
  /\ channel_topic = ForeignTopic
  /\ presence = None
  /\ task = [t \in Tasks |-> NoTask]
  /\ completed_online = None
  /\ ready_again = FALSE
  /\ query = IdleQuery
  /\ resp_text \in BoundedTexts \cup {ListOfTwo, ListOfNone}
  /\ parsed = None

\* lines 75-87: one call of parse_rcon_list
ParseCall ==
  /\ parsed = None
  /\ parsed' = Some(parse_rcon_list(resp_text))
  /\ UNCHANGED <<resp_text, STATUS_CHANNEL_ID, RCON_ENABLED, last_server_online,
                 channel_is_text, channel_topic, presence, task, completed_online,
                 ready_again, query>>

ParseNext == ParseCall

ParseSpec == ParseInit /\ [][ParseNext]_vars

\* ---- the claims ----

Done(t) == task[t].pc = "done"
Configured == STATUS_CHANNEL_ID # None

\* C1: with a text channel configured, a completed tick that follows a
\* completed tick has sent an announcement if and only if the online value it
\* computed differs from the one the preceding completed tick computed; a
\* tick that computes the same value sends nothing.
C1_AnnouncedIffOnlineFlipped ==
  \A t \in Tasks :
    (Done(t) /\ Configured /\ task[t].saw_text /\ task[t].completed_at_start # None)
      => ((task[t].sent # <<>>)
            <=> (task[t].server_online # task[t].completed_at_start[1]))

C1_Witness ==
  \E t \in Tasks :
    /\ Done(t) /\ Configured /\ task[t].saw_text
    /\ task[t].completed_at_start = Some(FALSE)
    /\ task[t].server_online
    /\ task[t].sent # <<>>

\* C2: a tick entered while last_server_online is None reports no transition
\* and sends nothing, whether its probe succeeds or fails; when it returns,
\* last_server_online is the value it computed.
C2_FirstTickOnlyBaseline ==
  \A t \in Tasks :
    (task[t].pc # "none" /\ task[t].pc # "ready" /\ task[t].last_at_start = None)
      => /\ task[t].sent = <<>>
         /\ ~task[t].transitioned
         /\ Done(t) => last_server_online = Some(task[t].server_online)

C2_Witness ==
  \E t \in Tasks :
    /\ Done(t) /\ Configured /\ task[t].saw_text
    /\ task[t].last_at_start = None
    /\ task[t].server_online
    /\ last_server_online = Some(TRUE)

\* C3: no failure inside an iteration ends the loop task: no task is ever
\* left finished by an exception.
C3_LoopNeverEnded == \A t \in Tasks : task[t].pc # "failed"

\* C4 as stated: a completed transition tick with a text channel has sent
\* exactly the online message followed by the address hint when it computed
\* online, and exactly the offline message when it computed offline.
C4_WholeAnnouncementSent ==
  \A t \in Tasks :
    (Done(t) /\ Configured /\ task[t].transitioned /\ task[t].saw_text)
      => task[t].sent = IF task[t].server_online THEN <<OnlineMsg, HintMsg>>
                                                 ELSE <<OfflineMsg>>

\* C4 amended: a completed transition tick with a text channel has sent one
\* announcement of the direction it computed and none of the other: the
\* online message, followed by the address hint unless sending the online
\* message raised, when it computed online; the offline message alone when
\* it computed offline.
C4_AnnouncementMatchesDirection ==
  \A t \in Tasks :
    (Done(t) /\ Configured /\ task[t].transitioned /\ task[t].saw_text)
      => IF task[t].server_online
           THEN \/ task[t].sent = <<OnlineMsg, HintMsg>>
                \/ task[t].sent = <<OnlineMsg>> /\ task[t].send_failed
           ELSE task[t].sent = <<OfflineMsg>>

C4_Witness ==
  \E t \in Tasks :
    /\ Done(t) /\ Configured /\ task[t].transitioned /\ task[t].saw_text
    /\ task[t].server_online
    /\ task[t].sent = <<OnlineMsg, HintMsg>>
    /\ ~task[t].send_failed

\* C5: once the status probe of a tick has failed, the tick holds
\* server_online = FALSE, online = 0 and max_players = 0, it has gone on to
\* call change_presence (the failure did not leave the tick), and the one
\* label it has handed over is the offline label.
C5_ProbeFailureMeansOffline ==
  \A t \in Tasks :
    task[t].probe_failed
      => /\ ~task[t].server_online
         /\ task[t].online = 0
         /\ task[t].max_players = 0
         /\ task[t].pc # "probe"
         /\ task[t].presence_calls = << <<"server offline">> >>

C5_Witness ==
  \E t \in Tasks :
    /\ Done(t)
    /\ task[t].probe_failed
    /\ presence = <<"server offline">>

\* C6 as stated: a tick edits the topic at most once, and a tick that computes
\* the topic its preceding tick computed edits nothing.
C6_NoEditWhenSameAsPreviousTick ==
  \A t \in Tasks :
    /\ task[t].edits <= 1
    /\ task[t].edits > 0 => task[t].topic # task[t].prev_topic

\* C6 amended: a tick edits the topic at most once, and exactly when it
\* computes a topic that differs from the topic the channel carries at that
\* moment; while the edit is awaited the channel still carries another topic.
C6_EditIffChannelTopicDiffers ==
  \A t \in Tasks :
    /\ task[t].edits <= 1
    /\ task[t].topic = None => task[t].edits = 0
    /\ task[t].topic # None
         => ((task[t].edits = 1) <=> (task[t].topic_seen # task[t].topic))
    /\ task[t].pc = "topic" => channel_topic # task[t].topic

C6_Witness ==
  \E t \in Tasks :
    /\ Done(t)
    /\ task[t].topic # None
    /\ task[t].topic = task[t].prev_topic
    /\ task[t].edits = 0
    /\ channel_topic = task[t].topic

\* C7: every tick that is past its probe has called change_presence exactly
\* once, also when the presence shown is already that label; the label is
\* the player count when the tick computed online and the offline label
\* otherwise.
C7_PresenceWrittenEveryTick ==
  \A t \in Tasks :
    task[t].pc \notin {"none", "ready", "probe"}
      => task[t].presence_calls =
           << IF task[t].server_online THEN <<"players on", task[t].online>>
                                       ELSE <<"server offline">> >>

C7_Witness ==
  \E t \in Tasks :
    /\ task[t].pc = "presence"
    /\ task[t].completed_at_start = Some(task[t].server_online)
    /\ task[t].presence_calls = <<presence>>

\* C8: at most one execution of update_presence is in progress, and at most
\* one loop task exists, also after on_ready has fired again.
C8_IterationsNeverOverlap ==
  /\ Cardinality({t \in Tasks : InTick(task[t])}) <= 1
  /\ Cardinality({t \in Tasks : TaskAlive(task[t])}) <= 1

C8_Witness ==
  /\ ready_again
  /\ \E t \in Tasks : InTick(task[t]) /\ task[t].completed_at_start # None

\* C9: a step of online_command changes neither last_server_online nor
\* anything else the ticks read or write (the task and its locals, the
\* channel's topic, the presence, the tick history).
C9_QueryLeavesMonitorState ==
  [][query' # query
       => UNCHANGED <<last_server_online, task, channel_topic, presence,
                      completed_online, channel_is_text>>]_vars

C9_Witness ==
  /\ query.pc = "replied"
  /\ query.response # <<"could not reach">>
  /\ last_server_online = Some(FALSE)
  /\ \E t \in Tasks : task[t].pc = "send_offline"

\* C10: a query whose status probe failed answers "could not reach", never
\* "nobody online"; a query whose probe returned with nobody online answers
\* "nobody online", never "could not reach".
C10_UnreachableDistinctFromEmpty ==
  query.pc = "replied"
    => /\ query.probe_failed
            => query.response = <<"could not reach">>
       /\ (~query.probe_failed /\ query.online = 0)
            => query.response = <<"nobody online">>
       /\ (query.response = <<"could not reach">>) => query.probe_failed

C10_Witness ==
  /\ query.pc = "replied"
  /\ query.probe_failed
  /\ query.response = <<"could not reach">>

\* C11: the names a query that reached the server shows are: none when
\* online is 0; the names parsed from the RCON reply when online > 0 and the
\* reply is present and parses to a non-empty list; otherwise the names of
\* the status sample (possibly none).
C11_NamesFollowPrecedence ==
  (query.pc = "replied" /\ ~query.probe_failed)
    => LET admin == IF query.rcon_resp = None THEN <<>>
                    ELSE parse_rcon_list(query.rcon_resp[1])
           names == IF query.online = 0 THEN <<>>
                    ELSE IF admin # <<>> THEN admin
                    ELSE query.sample
       IN /\ query.player_names = names
          /\ query.response =
               IF query.online = 0 THEN <<"nobody online">>
               ELSE IF names # <<>>
                      THEN <<"players online", query.online, query.max_players, names>>
                      ELSE <<"names not retrieved", query.online, query.max_players>>

C11_Witness ==
  /\ query.pc = "replied"
  /\ query.online > 0
  /\ query.sample = <<Alex, Steve>>
  /\ query.rcon_resp # None
  /\ query.player_names = <<Steve, Alex>>

\* C12: the RCON probe does network I/O only when RCON is enabled and the
\* status probe reported somebody online; a query that saw online = 0 never
\* calls rcon_list_async, and with no credential no I/O is ever attempted.
C12_RconOnlyWhenEnabledAndOnline ==
  /\ query.rcon_io => (RCON_ENABLED /\ query.online > 0)
  /\ query.rcon_called => query.online > 0
  /\ query.pc = "rcon" => query.rcon_io
  /\ (query.rcon_resp # None \/ query.rcon_failed) => query.rcon_io

C12_Witness ==
  /\ query.pc = "replied"
  /\ ~query.probe_failed
  /\ RCON_ENABLED
  /\ query.online = 0
  /\ ~query.rcon_called

\* C13: a query whose enabled RCON probe failed still answers with the normal
\* detail reply built from the status sample, and not with an error reply.
C13_RconFailureFallsBackToSample ==
  (query.pc = "replied" /\ query.rcon_failed)
    => /\ query.online > 0
       /\ query.rcon_resp = None
       /\ query.player_names = query.sample
       /\ query.response =
            IF query.sample # <<>>
              THEN <<"players online", query.online, query.max_players, query.sample>>
              ELSE <<"names not retrieved", query.online, query.max_players>>

C13_Witness ==
  /\ query.pc = "replied"
  /\ query.rcon_failed
  /\ query.response = <<"players online", query.online, query.max_players, <<Steve>> >>

\* C14: parse_rcon_list returns no name for a text without a colon; otherwise
\* it returns, in their order, the pieces between the commas of the text
\* after the first colon, each cut down to the stretch from its first to its
\* last non-blank character, the all-blank pieces left out.  The two replies
\* of the docstring give [Steve, Alex] and [].
FirstColon(s) ==
  IF \E i \in 1..Len(s) : s[i] = ":"
    THEN CHOOSE i \in 1..Len(s) : s[i] = ":" /\ \A j \in 1..(i - 1) : s[j] # ":"
    ELSE 0

\* the stretch of s from the first to the last non-blank position in lo..hi
Core(s, lo, hi) ==
  LET ink == {i \in lo..hi : s[i] \notin Whitespace}
  IN IF ink = {} THEN <<>>
     ELSE SubSeq(s, CHOOSE i \in ink : \A j \in ink : i <= j,
                    CHOOSE i \in ink : \A j \in ink : j <= i)

\* the names of s (the text after the colon): one per piece with ink
TokensOf(s) ==
  LET cuts == {0, Len(s) + 1} \cup {i \in 1..Len(s) : s[i] = ","}
      nextCut(c) == CHOOSE d \in cuts : d > c /\ \A e \in cuts : e > c => d <= e
      piece(c) == Core(s, c + 1, nextCut(c) - 1)
      kept == {c \in cuts \ {Len(s) + 1} : piece(c) # <<>>}
      nth(k) == CHOOSE c \in kept : Cardinality({d \in kept : d < c}) = k - 1
  IN [k \in 1..Cardinality(kept) |-> piece(nth(k))]

ExpectedNames(s) ==
  IF FirstColon(s) = 0 THEN <<>>
  ELSE TokensOf(SubSeq(s, FirstColon(s) + 1, Len(s)))

C14_ParseRconList ==
  parsed # None
    => /\ parsed[1] = ExpectedNames(resp_text)
       /\ resp_text = ListOfTwo
            => parsed[1] = << <<"S", "t", "e", "v", "e">>, <<"A", "l", "e", "x">> >>
       /\ resp_text = ListOfNone => parsed[1] = <<>>

C14_Witness ==
  /\ parsed # None
  /\ resp_text = <<":", "S", ",", " ", "A">>
  /\ parsed[1] = <<Steve, Alex>>

Sending(t) == task[t].pc \in {"send_online", "send_hint", "send_offline"}

\* C15: with no channel configured no tick computes or edits a topic or sends
\* a message, whatever the probes return; the presence is still written, and
\* a tick that has returned leaves last_server_online at the value it computed.
C15_NoChannelNoTopicNoAnnouncement ==
  ~Configured
    => \A t \in Tasks :
         /\ task[t].edits = 0
         /\ task[t].topic = None
         /\ task[t].sent = <<>>
         /\ task[t].pc \notin {"none", "ready", "probe"} => Len(task[t].presence_calls) = 1
         /\ Done(t) => last_server_online = Some(task[t].server_online)

C15_Witness ==
  /\ ~Configured
  /\ \E t \in Tasks :
       /\ Done(t)
       /\ task[t].completed_at_start = Some(FALSE)
       /\ task[t].server_online
       /\ last_server_online = Some(TRUE)
       /\ presence = <<"players on", task[t].online>>

\* C16 as stated: last_server_online is not assigned while the tick still has
\* a surface to write (an announcement being sent included), and a tick that
\* has returned has assigned it exactly once, to the value it computed.
C16_AssignedOnceAfterAllSurfaces ==
  \A t \in Tasks :
    /\ InTick(task[t]) => task[t].updates = 0
    /\ Done(t) => (task[t].updates = 1 /\ last_server_online = Some(task[t].server_online))

\* C16 amended: a tick assigns last_server_online at most once: never before
\* the presence and the topic are written and the transition is decided,
\* always before the announcement is sent, and not at all when a channel is
\* configured and the state it computed is the last known one; when the tick
\* has returned, last_server_online is the value it computed.
C16_AssignedAtMostOnceBeforeAnnouncing ==
  \A t \in Tasks :
    /\ task[t].updates <= 1
    /\ task[t].pc \in {"probe", "presence", "topic"}
         => (task[t].updates = 0 /\ last_server_online = task[t].last_at_start)
    /\ Sending(t)
         => (task[t].updates = 1 /\ last_server_online = Some(task[t].server_online))
    /\ Done(t)
         => /\ last_server_online = Some(task[t].server_online)
            /\ (task[t].updates = 0)
                 <=> (Configured /\ task[t].last_at_start = Some(task[t].server_online))

C16_Witness ==
  \E t \in Tasks :
    /\ task[t].pc = "send_offline"
    /\ task[t].updates = 1
    /\ task[t].last_at_start = Some(TRUE)
    /\ last_server_online = Some(FALSE)

\* C17: a tick whose topic edit raised goes on: it is sending or has returned,
\* last_server_online is the value it computed, and if that value differs
\* from the last known one and the channel is a text channel, the
\* announcement of that direction has been started in the same tick.
C17_FailedEditDoesNotAbortTick ==
  \A t \in Tasks :
    task[t].edit_failed
      => /\ Sending(t) \/ Done(t)
         /\ last_server_online = Some(task[t].server_online)
         /\ (/\ task[t].last_at_start # None
             /\ task[t].last_at_start # Some(task[t].server_online)
             /\ task[t].saw_text)
              => /\ task[t].transitioned
                 /\ task[t].sent # <<>>
                 /\ task[t].sent[1] = IF task[t].server_online THEN OnlineMsg ELSE OfflineMsg

C17_Witness ==
  \E t \in Tasks :
    /\ Done(t)
    /\ task[t].edit_failed
    /\ task[t].last_at_start = Some(FALSE)
    /\ task[t].sent = <<OnlineMsg, HintMsg>>

\* C18: a tick in which a send raised has returned without sending any
\* message twice; and a tick that follows a tick whose announcement was
\* missed (a send raised, or the channel was no text channel) and computes
\* the same online value detects no transition and sends nothing.
C18_MissedAnnouncementNeverRetried ==
  \A t \in Tasks :
    /\ task[t].send_failed
         => /\ Done(t)
            /\ task[t].sent \in {<<OnlineMsg>>, <<OnlineMsg, HintMsg>>, <<OfflineMsg>>}
    /\ (Done(t) /\ task[t].prev_missed
           /\ task[t].completed_at_start = Some(task[t].server_online))
         => (task[t].sent = <<>> /\ ~task[t].transitioned)

C18_Witness ==
  \E t \in Tasks :
    /\ Done(t)
    /\ task[t].prev_missed
    /\ task[t].completed_at_start = Some(TRUE)
    /\ task[t].server_online
    /\ task[t].saw_text
    /\ task[t].sent = <<>>

\* C20: a tick that computes the topic its preceding tick computed edits the
\* channel if and only if the edit of that preceding tick raised: a failed
\* write is attempted again, and after a write that went through (or was not
\* needed) no further write is made while the topic stays the same.
C20_TopicWriteSelfHealing ==
  \A t \in Tasks :
    (task[t].topic # None /\ task[t].topic = task[t].prev_topic)
      => ((task[t].edits = 1) <=> (task[t].prev_edit = "failed"))

C20_Witness ==
  \E t \in Tasks :
    /\ Done(t)
    /\ task[t].prev_edit = "failed"
    /\ task[t].topic = task[t].prev_topic
    /\ task[t].edits = 1
    /\ ~task[t].edit_failed
    /\ channel_topic = task[t].topic

\* a step of the command: its invocation, the return of its status probe,
\* the return of its RCON call
QueryStep == QueryInvoke \/ QueryStatus \/ QueryRcon

\* C19: while a tick waits for a status probe that does not return, the
\* command can always take its next step (be invoked, get its probe's
\* result, get RCON's result and reply); and no step of the program runs the
\* command's processing together with a change of the tick's state.
C19_HungProbeBlocksNoQuery ==
  /\ [](TickAwaitingProbe => ENABLED QueryStep)
  /\ [][~(query' # query /\ (task' # task \/ last_server_online' # last_server_online))]_vars

C19_Witness ==
  /\ TickAwaitingProbe
  /\ query.pc = "replied"
  /\ query.while_probing
  /\ query.rcon_resp # None

====
